---- MODULE Spec2Model ----
(***************************************************************************)
(* source-to-sink: the circuit breaker (src/src/circuit.js) and the batch  *)
(* collector (batch(), src/src/mqttSource.js lines 343-396) driven by a    *)
(* fake clock and a sink whose write() may return, throw, or return a      *)
(* promise that rejects later.                                             *)
(*                                                                         *)
(* Records are opaque to the code; the model names each record by the      *)
(* ordinal of the accept() call that delivered it.                         *)
(***************************************************************************)
EXTENDS Integers, Sequences, FiniteSets, TLC

\* ---- bounds of the exploration ------------------------------------------
MaxSize == 3
MaxThreshold == 2
MaxTime == 1500
MaxAccepts == 4
MaxWrites == 2
MaxFailures == 3
MaxElapse == 3000   \* the timers are followed up to this time, milliseconds
MaxHandles == 3     \* timers the runtime sets
MaxInflight == 2    \* fetch calls awaiting their result at once
MaxEntries == 2     \* entries in the result of one fetch
MaxStarts == 3      \* handlers an MQTT source creates
MaxMessages == 3    \* messages the MQTT client emits

\* milliseconds per second, the divisor of open().expired()
Second == 1000

\* circuit timeouts tried, in seconds
Timeouts == {0, 1}

\* amounts the fake clock is advanced by, in milliseconds
Steps == {500, 1000}

\* what a call of sink.write(records) can do: return (a value, or a promise
\* that resolves), throw, or return a promise that rejects afterwards
Outcomes == {"returns", "throws", "rejects"}

\* interval of the timed batch and of the polling source, seconds
Intervals == {1}

\* what a call on the collector wrapped by the timed batch does
OriginOutcomes == {"returns", "throws"}

\* how a fetch of the polling source settles
FetchOutcomes == {"resolves", "rejects"}

\* origin.stop() as the timed batch calls it: the stop() of a collector
\* assigns an empty buffer, or cancels a timer and calls the next stop()
StopOutcomes == {"returns"}

VARIABLES
  size,        \* batch(sink, size, circuit): configured batch size
  threshold,   \* circuit(threshold, timeout, clk)
  timeout,     \* circuit(threshold, timeout, clk), in seconds
  time,        \* fakeClock: current time in milliseconds
  failures,    \* circuit: let failures
  state,       \* circuit: let state, closed() or open(timestamp, ...)
  records,     \* batch: let records, the pending buffer
  accepted,    \* number of batch accept() calls made so far
  written,     \* number of sink.write calls made so far
  log,         \* the last call on the batch: what it was and what it did
  call,        \* the last call made directly on the circuit, and its result
  steady,      \* so far only accept() calls, none refused, every write returned
  consecFails, \* fail() calls since construction or the last succeed()
  lastFailAt,  \* clock time of the last fail() call
  streak,      \* fail() calls since construction, the last succeed() or the
               \* last allowing() that returned true on an open circuit
  \* timers of the runtime, and the two components that use them
  interval,    \* seconds between flushes or polls, constructor argument
  handles,     \* number of timer handles the runtime has issued
  timeouts,    \* setTimeout timers not fired or cleared: handle and due time
  tickers,     \* setInterval timers not cleared: handle and next due time
  \* timed batch
  timer,       \* idle, or scheduled with the handle of its timer
  tlog,        \* the last call on the timed batch
  fired,       \* flushes made by the timer since the last call
  expiry,      \* what the last run of the timer's callback did
  \* polling source
  pstate,      \* `state` of the polling source: idle, or polling with a handle
  since,       \* lower bound of the next fetch window
  inflight,    \* fetch calls not settled yet, each with its window
  run,         \* whether start() was called since the last stop(), when, and
               \* the fetch calls made since the last start() or stop()
  plog,        \* the last call on the polling source
  forwarded,   \* what the last poll() that got a result did with it
  ticks,       \* the last two fetch calls, and what `since` was last given
  \* followed in their own specifications only
  writing,     \* writes of an asynchronous sink begun and not completed
  flights,     \* those writes: the records handed over, and whether the
               \* array handed over is still the buffer of the batch
  ledger,      \* the records of the writes that returned, in call order, the
               \* records stop() discarded, the failed writes in a row and
               \* the time of the last
  cf,          \* a component under construction: arguments, outcome, calls
  mq           \* the MQTT source, its client and the last call on it

vars == <<size, threshold, timeout, time, failures, state, records, accepted,
          written, log, call, steady, consecFails, lastFailAt, streak,
          interval, handles, timeouts, tickers, timer, tlog, fired, expiry,
          pstate, since, inflight, run, plog, forwarded, ticks,
          writing, flights, ledger, cf, mq>>

\* what the batch collector and the circuit breaker do not touch
timerVars == <<interval, handles, timeouts, tickers, timer, tlog, fired, expiry,
               pstate, since, inflight, run, plog, forwarded, ticks>>

\* what is followed in its own specification only
asideVars == <<writing, flights, ledger, cf, mq>>

\* ---- circuit.js ----------------------------------------------------------

closed == [allowing |-> TRUE]

open(timestamp) == [allowing |-> FALSE, timestamp |-> timestamp]

\* faulty variant: the timeout has to be exceeded (> for >=)
expiredLate(st) == (time - st.timestamp) > timeout * Second

\* (clk.millis() - timestamp) / 1000 >= timeout, the quotient being a real
expired(st) == (time - st.timestamp) >= timeout * Second

\* the circuit as one value, for the calls the batch makes in sequence
Circ == [failures |-> failures, state |-> state]

\* faulty variant: a recovered circuit keeps its count of failures
allowingCounting(cb) ==
  IF cb.state.allowing
    THEN [ret |-> TRUE, cb |-> cb]
    ELSE IF expired(cb.state)
      THEN [ret |-> TRUE, cb |-> [failures |-> cb.failures, state |-> closed]]
      ELSE [ret |-> FALSE, cb |-> cb]

\* faulty variant: an open circuit closes at the first question
allowingEager(cb) ==
  IF cb.state.allowing
    THEN [ret |-> TRUE, cb |-> cb]
    ELSE [ret |-> TRUE, cb |-> [failures |-> 0, state |-> closed]]

allowing(cb) ==
  IF cb.state.allowing
    THEN [ret |-> TRUE, cb |-> cb]
    ELSE IF expired(cb.state)
      THEN [ret |-> TRUE, cb |-> [failures |-> 0, state |-> closed]]
      ELSE [ret |-> FALSE, cb |-> cb]

\* faulty variant: succeed() resets the counter and leaves the state
succeedCounting(cb) == [failures |-> 0, state |-> cb.state]

succeed(cb) == [failures |-> 0, state |-> closed]

\* faulty variant: the circuit opens one failure too late (> for >=)
opensLate(n) == n > threshold

opens(n) == n >= threshold

\* faulty variant: a fail() on an open circuit leaves the time it opened
failKeeping(cb) ==
  LET n == cb.failures + 1
  IN [failures |-> n,
      state |-> IF opens(n) /\ cb.state.allowing THEN open(time) ELSE cb.state]

fail(cb) ==
  LET n == cb.failures + 1
  IN [failures |-> n, state |-> IF opens(n) THEN open(time) ELSE cb.state]

\* ---- batch() -------------------------------------------------------------

\* faulty variant: perform() without its check for an empty buffer
emptyNever(recs) == FALSE

empty(recs) == Len(recs) = 0

\* faulty variant: accept() compares with > instead of >=
reachedLate(recs) == Len(recs) > size

reached(recs) == Len(recs) >= size

\* perform() returning at once: nothing pending
skipped(cb, recs) ==
  [records |-> recs, cb |-> cb, calls |-> <<>>, threw |-> FALSE,
   wrote |-> <<>>, outcome |-> "none"]

\* faulty variant: a refused flush throws the pending records away
deniedDropping(cb, recs) ==
  [records |-> <<>>, cb |-> cb, calls |-> <<"allowing">>, threw |-> FALSE,
   wrote |-> <<>>, outcome |-> "none"]

\* perform() returning because circuit.allowing() said no
denied(cb, recs) ==
  [records |-> recs, cb |-> cb, calls |-> <<"allowing">>, threw |-> FALSE,
   wrote |-> <<>>, outcome |-> "none"]

\* faulty variant: the buffer is not reset after a write
returnedKeeping(cb, pending, outcome) ==
  [records |-> pending, cb |-> succeed(cb),
   calls |-> <<"allowing", "write", "succeed">>, threw |-> FALSE,
   wrote |-> <<pending>>, outcome |-> outcome]

\* faulty variant: circuit.succeed() is not called after a write
returnedSilent(cb, pending, outcome) ==
  [records |-> <<>>, cb |-> cb,
   calls |-> <<"allowing", "write">>, threw |-> FALSE,
   wrote |-> <<pending>>, outcome |-> outcome]

\* sink.write(pending) came back: records = []; circuit.succeed()
returned(cb, pending, outcome) ==
  [records |-> <<>>, cb |-> succeed(cb),
   calls |-> <<"allowing", "write", "succeed">>, threw |-> FALSE,
   wrote |-> <<pending>>, outcome |-> outcome]

\* faulty variant: the buffer is reset before the write (optimistic clear)
caughtClearing(cb, pending, outcome) ==
  [records |-> <<>>, cb |-> fail(cb),
   calls |-> <<"allowing", "write", "fail">>, threw |-> TRUE,
   wrote |-> <<pending>>, outcome |-> outcome]

\* sink.write(pending) threw: circuit.fail(); throw err
caught(cb, pending, outcome) ==
  [records |-> pending, cb |-> fail(cb),
   calls |-> <<"allowing", "write", "fail">>, threw |-> TRUE,
   wrote |-> <<pending>>, outcome |-> outcome]

\* only an exception reaches the catch block: the value write() returns,
\* a promise included, is dropped
throws(outcome) == outcome = "throws"

perform(cb, recs, outcome) ==
  IF empty(recs) THEN skipped(cb, recs)
  ELSE LET a == allowing(cb)
       IN IF ~a.ret THEN denied(a.cb, recs)
          ELSE IF throws(outcome) THEN caught(a.cb, recs, outcome)
          ELSE returned(a.cb, recs, outcome)

accept(cb, recs, record, outcome) ==
  LET pushed == Append(recs, record)
  IN IF reached(pushed) THEN perform(cb, pushed, outcome)
     ELSE skipped(cb, pushed)

flush(cb, recs, outcome) == perform(cb, recs, outcome)

\* faulty variant: stop() flushes instead of discarding
stopFlushing(cb, recs) == perform(cb, recs, "returns")

stop(cb, recs) ==
  [records |-> <<>>, cb |-> cb, calls |-> <<>>, threw |-> FALSE,
   wrote |-> <<>>, outcome |-> "none"]

\* ---- bookkeeping of what has been observed -------------------------------

Failed(p) == p.calls = <<"allowing", "write", "fail">>
Succeeded(p) == p.calls = <<"allowing", "write", "succeed">>
Denied(p) == p.calls = <<"allowing">>
Wrote(p) == p.wrote # <<>>

\* the fail() calls in a row are counted up to one past the threshold
Bump(n) == IF n > threshold THEN n ELSE n + 1

\* had: how many records were pending when the call was made;
\* again: the call before it on the batch was a flush() that threw
Entry(op, p) ==
  [op |-> op, calls |-> p.calls, threw |-> p.threw, wrote |-> p.wrote,
   outcome |-> p.outcome, had |-> Len(records),
   again |-> (log.op = "flush" /\ log.threw)]

NoCall == [op |-> "none", ret |-> TRUE]

\* the call p of the batch found the circuit open and was let through
Recovered(p) == Len(p.calls) > 1 /\ ~state.allowing

\* ---- the state machine ---------------------------------------------------


\* ---- timers of the runtime -----------------------------------------------
\* The clock of the components is the wall clock of the runtime (clock.js
\* reads Date.now()), so `time` is also the time of the timers.

\* interval * 1000, the delay handed to setTimeout and setInterval
Delay(i) == i * Second

setTimeout(q, handle, delay) == q \cup {[handle |-> handle, due |-> time + delay]}

clearTimeout(q, handle) == {t \in q : t.handle # handle}

setInterval(q, handle, delay) == q \cup {[handle |-> handle, due |-> time + delay]}

clearInterval(q, handle) == {t \in q : t.handle # handle}

\* ---- timedBatch(origin, interval) ----------------------------------------

idle == [scheduled |-> FALSE]

scheduled(handle) == [scheduled |-> TRUE, handle |-> handle]

\* the timed batch with the timers of the runtime, as a value
Tm == [timer |-> timer, timeouts |-> timeouts, handles |-> handles]

\* faulty variant: every accept sets a timer
scheduleAgain(w) ==
  [timer |-> scheduled(w.handles + 1),
   timeouts |-> setTimeout(w.timeouts, w.handles + 1, Delay(interval)),
   handles |-> w.handles + 1]

schedule(w) ==
  IF ~w.timer.scheduled
    THEN [timer |-> scheduled(w.handles + 1),
          timeouts |-> setTimeout(w.timeouts, w.handles + 1, Delay(interval)),
          handles |-> w.handles + 1]
    ELSE w

cancel(w) ==
  [timer |-> idle,
   timeouts |-> IF w.timer.scheduled
                  THEN clearTimeout(w.timeouts, w.timer.handle)
                  ELSE w.timeouts,
   handles |-> w.handles]

\* the callback of the timer t: timer = idle(); origin.flush()
expire(w, t) ==
  [timer |-> idle, timeouts |-> w.timeouts \ {t}, handles |-> w.handles]

\* faulty variant: the callback calls origin.flush() before timer = idle()
fireFlushingFirst(w, t, outcome) ==
  [w |-> IF outcome = "throws"
           THEN [w EXCEPT !.timeouts = @ \ {t}]
           ELSE expire(w, t),
   called |-> <<"flush">>, threw |-> outcome = "throws", before |-> w.timer]

\* the timer t runs its callback, origin.flush() doing as `outcome` says;
\* before: the timer state at the call of origin.flush()
fire(w, t, outcome) ==
  [w |-> expire(w, t), called |-> <<"flush">>, threw |-> outcome = "throws",
   before |-> expire(w, t).timer]

\* accept(record): origin.accept(record); schedule()
timedAccept(w, outcome) ==
  IF outcome = "throws"
    THEN [w |-> w, called |-> <<"accept">>, threw |-> TRUE]
    ELSE [w |-> schedule(w), called |-> <<"accept">>, threw |-> FALSE]

\* faulty variant: flush() leaves the timer
timedFlushKeeping(w, outcome) ==
  [w |-> w, called |-> <<"flush">>, threw |-> outcome = "throws"]

\* flush(): cancel(); origin.flush()
timedFlush(w, outcome) ==
  [w |-> cancel(w), called |-> <<"flush">>, threw |-> outcome = "throws"]

\* faulty variant: stop() leaves the timer
timedStopKeeping(w, outcome) ==
  [w |-> w, called |-> <<"stop">>, threw |-> outcome = "throws"]

\* stop(): cancel(); origin.stop()
timedStop(w, outcome) ==
  [w |-> cancel(w), called |-> <<"stop">>, threw |-> outcome = "throws"]

\* ---- pollingSource(fetch, interval, collector, clk) ----------------------

idlePolling == [polling |-> FALSE]

polling(handle) == [polling |-> TRUE, handle |-> handle]

\* the polling source with the timers of the runtime, as a value
Ps == [state |-> pstate, since |-> since, tickers |-> tickers,
       handles |-> handles, inflight |-> inflight]

\* faulty variant: the window moves on before the fetch is awaited
pollAdvancing(w) ==
  [w EXCEPT !.inflight = Append(@, [since |-> w.since, until |-> time]),
            !.since = time]

\* poll() up to its await: until = clk.millis(); fetch(since, until)
poll(w) ==
  [w EXCEPT !.inflight = Append(@, [since |-> w.since, until |-> time])]

\* faulty variant: the window stays where it is
resumeKeeping(w, f) == w

\* poll() after its await, the fetch f having resolved: since = until
resume(w, f) == [w EXCEPT !.since = f.until]

\* for (const entry of result) collector.accept(entry), the result having n
\* entries and collector.accept throwing at the call number `bad`, if it is
\* made: the calls made, and whether the loop ended by the throw
forward(n, bad) ==
  [result |-> n, calls |-> IF bad <= n THEN bad ELSE n, threw |-> bad <= n,
   passed |-> [i \in 1..(IF bad <= n THEN bad ELSE n) |-> i]]

\* faulty variant: the timer runs once, as one set by setTimeout
again1(q, k) == q \ {k}

\* a timer set by setInterval, having run, is due again a delay later
again(q, k) == (q \ {k}) \cup {[k EXCEPT !.due = @ + Delay(interval)]}

\* faulty variant: start() sets a timer whatever the state
startingAgain(w) ==
  [w EXCEPT !.state = polling(w.handles + 1),
            !.since = time,
            !.tickers = setInterval(@, w.handles + 1, Delay(interval)),
            !.handles = @ + 1]

\* faulty variant: start() polls at once
startingEager(w) ==
  IF w.state.polling
    THEN w
    ELSE poll(startingAgain(w))

starting(w) ==
  IF w.state.polling
    THEN w
    ELSE [w EXCEPT !.state = polling(w.handles + 1),
                   !.since = time,
                   !.tickers = setInterval(@, w.handles + 1, Delay(interval)),
                   !.handles = @ + 1]

\* faulty variant: stop() without its guard, which starts the window anew
stoppingAnyway(w) ==
  [w EXCEPT !.state = idlePolling,
            !.since = time,
            !.tickers = IF w.state.polling
                          THEN clearInterval(@, w.state.handle)
                          ELSE @]

\* faulty variant: stop() forgets the timer without clearing it
stoppingKeeping(w) ==
  IF ~w.state.polling
    THEN w
    ELSE [w EXCEPT !.state = idlePolling]

stopping(w) ==
  IF ~w.state.polling
    THEN w
    ELSE [w EXCEPT !.state = idlePolling,
                   !.tickers = clearInterval(@, w.state.handle)]

\* ---- bookkeeping of the timers -------------------------------------------

\* first: the time of the first accept() that returned since the last
\* flush(), stop() or firing of the timer, -1 if there was none
TimedEntry(op, r) ==
  [op |-> op, at |-> time, idle |-> ~timer.scheduled, threw |-> r.threw,
   called |-> r.called,
   first |-> IF op # "accept" THEN -1
             ELSE IF tlog.first < 0 /\ ~r.threw THEN time ELSE tlog.first]

\* a fetch call as `ticks` keeps it. status: "pending", "resolved" or
\* "rejected"; after: what had moved `since` between the call before it and
\* this one: "no" nothing, "prev" the result of the call before it and nothing
\* else, "other" a start() or the result of another call
NoExpiry == [called |-> <<>>, threw |-> FALSE, before |-> idle]

NoFetch == [since |-> -1, until |-> -1, status |-> "none", after |-> "no"]

Called(f) ==
  [prior |-> ticks.prev,
   prev |-> [since |-> f.since, until |-> f.until, status |-> "pending",
             after |-> ticks.moved],
   base |-> ticks.base,
   moved |-> "no"]

\* f is the latest fetch call
Latest(f) ==
  /\ ticks.prev.status = "pending"
  /\ ticks.prev.since = f.since /\ ticks.prev.until = f.until

Settled(f, outcome) ==
  [prior |-> ticks.prior,
   prev |-> IF Latest(f)
              THEN [ticks.prev EXCEPT !.status =
                      IF outcome = "resolves" THEN "resolved" ELSE "rejected"]
              ELSE ticks.prev,
   base |-> IF outcome = "resolves" THEN f.until ELSE ticks.base,
   moved |-> IF outcome # "resolves" THEN ticks.moved
             ELSE IF Latest(f) /\ ticks.moved = "no" THEN "prev" ELSE "other"]

TimersInit ==
  /\ interval \in Intervals
  /\ handles = 0
  /\ timeouts = {}
  /\ tickers = {}
  /\ timer = idle
  /\ tlog = [op |-> "new", at |-> 0, idle |-> TRUE, threw |-> FALSE,
             called |-> <<>>, first |-> -1]
  /\ fired = 0
  /\ expiry = NoExpiry
  /\ pstate = idlePolling
  /\ since = time
  /\ inflight = <<>>
  /\ run = [on |-> FALSE, at |-> 0, fetched |-> 0]
  /\ plog = [op |-> "new", at |-> 0, polling |-> FALSE]
  /\ forwarded = [did |-> forward(0, 1), on |-> FALSE]
  /\ ticks = [prior |-> NoFetch, prev |-> NoFetch, base |-> time,
              moved |-> "no"]

NoComponent == [kind |-> "none"]

NoLedger == [delivered |-> <<>>, discarded |-> {}, failed |-> 0, failedAt |-> 0]

\* ---- MQTT source on an injected client -----------------------------------

idleMqtt == [subscribed |-> FALSE, handler |-> 0]

subscribed(handler) == [subscribed |-> TRUE, handler |-> handler]

\* the source and its client: state is the source's state, listeners the
\* handlers registered for 'message' on the client, topic whether the client
\* is subscribed to the topic, issued the number of handlers created
MqttInit ==
  [state |-> idleMqtt, listeners |-> {}, topic |-> FALSE, issued |-> 0,
   seen |-> 0, accepts |-> 0, late |-> 0,
   log |-> [op |-> "new", calls |-> <<>>, threw |-> FALSE]]

\* start() without its guard
mqttStartAgain(w) ==
  LET handler == w.issued + 1
  IN [state |-> subscribed(handler), listeners |-> w.listeners \cup {handler},
      topic |-> TRUE, issued |-> handler, calls |-> <<"on", "subscribe">>]

mqttStart(w) ==
  IF w.state.subscribed
    THEN [state |-> w.state, listeners |-> w.listeners, topic |-> w.topic,
          issued |-> w.issued, calls |-> <<>>]
    ELSE mqttStartAgain(w)

\* stop() that leaves the handler on the client
mqttStopKeeping(w) ==
  IF ~w.state.subscribed
    THEN [state |-> w.state, listeners |-> w.listeners, topic |-> w.topic,
          calls |-> <<>>]
    ELSE [state |-> idleMqtt, listeners |-> w.listeners, topic |-> FALSE,
          calls |-> <<"unsubscribe">>]

mqttStop(w) ==
  IF ~w.state.subscribed
    THEN [state |-> w.state, listeners |-> w.listeners, topic |-> w.topic,
          calls |-> <<>>]
    ELSE [state |-> idleMqtt, listeners |-> w.listeners \ {w.state.handler},
          topic |-> FALSE, calls |-> <<"unsubscribe", "off">>]

\* the handler on a message: matches is the test of the topic, payload what
\* JSON.parse makes of the message
handler(matches, payload) ==
  IF ~matches THEN [accepts |-> 0, threw |-> FALSE]
  ELSE IF payload = "garbage" THEN [accepts |-> 0, threw |-> TRUE]
  ELSE [accepts |-> 1, threw |-> FALSE]

Payloads == {"json", "garbage"}


Init ==
  /\ size \in 1..MaxSize
  /\ threshold \in 1..MaxThreshold
  /\ timeout \in Timeouts
  /\ time = 0
  /\ failures = 0
  /\ state = closed
  /\ records = <<>>
  /\ accepted = 0
  /\ written = 0
  /\ log = [op |-> "new", calls |-> <<>>, threw |-> FALSE, wrote |-> <<>>,
            outcome |-> "none", had |-> 0, again |-> FALSE]
  /\ call = NoCall
  /\ steady = TRUE
  /\ consecFails = 0
  /\ lastFailAt = 0
  /\ streak = 0
  /\ TimersInit
  /\ writing = 0
  /\ flights = <<>>
  /\ ledger = NoLedger
  /\ cf = NoComponent
  /\ mq = MqttInit

\* the effects of a call on the batch, p being what the call did
Apply(op, p) ==
  /\ records' = p.records
  /\ failures' = p.cb.failures
  /\ state' = p.cb.state
  /\ written' = written + Len(p.wrote)
  /\ log' = Entry(op, p)
  /\ call' = NoCall
  /\ steady' = (steady /\ op = "accept" /\ ~Denied(p) /\ ~p.threw
                  /\ p.outcome \in {"none", "returns"})
  /\ consecFails' = IF Failed(p) THEN Bump(consecFails)
                    ELSE IF Succeeded(p) THEN 0 ELSE consecFails
  /\ lastFailAt' = IF Failed(p) THEN time ELSE lastFailAt
  /\ streak' = IF Failed(p) THEN Bump(IF Recovered(p) THEN 0 ELSE streak)
               ELSE IF Succeeded(p) \/ Recovered(p) THEN 0 ELSE streak

BatchAccept ==
  /\ accepted < MaxAccepts
  /\ written < MaxWrites
  /\ \E outcome \in Outcomes :
       Apply("accept", accept(Circ, records, accepted + 1, outcome))
  /\ accepted' = accepted + 1
  /\ UNCHANGED <<size, threshold, timeout, time, timerVars, asideVars>>

BatchFlush ==
  /\ written < MaxWrites
  /\ \E outcome \in Outcomes :
       Apply("flush", flush(Circ, records, outcome))
  /\ UNCHANGED <<size, threshold, timeout, time, accepted, timerVars, asideVars>>

BatchStop ==
  /\ Apply("stop", stop(Circ, records))
  /\ UNCHANGED <<size, threshold, timeout, time, accepted, timerVars, asideVars>>

CircuitAllowing ==
  /\ LET a == allowing(Circ)
     IN /\ failures' = a.cb.failures
        /\ state' = a.cb.state
        /\ call' = [op |-> "allowing", ret |-> a.ret]
        /\ streak' = IF a.ret /\ ~state.allowing THEN 0 ELSE streak
  /\ UNCHANGED <<size, threshold, timeout, time, records, accepted, written,
                 log, steady, consecFails, lastFailAt, timerVars, asideVars>>

CircuitSucceed ==
  /\ LET cb == succeed(Circ)
     IN /\ failures' = cb.failures
        /\ state' = cb.state
  /\ call' = [op |-> "succeed", ret |-> TRUE]
  /\ consecFails' = 0
  /\ streak' = 0
  /\ UNCHANGED <<size, threshold, timeout, time, records, accepted, written,
                 log, steady, lastFailAt, timerVars, asideVars>>

CircuitFail ==
  /\ failures < MaxFailures
  /\ LET cb == fail(Circ)
     IN /\ failures' = cb.failures
        /\ state' = cb.state
  /\ call' = [op |-> "fail", ret |-> TRUE]
  /\ consecFails' = Bump(consecFails)
  /\ lastFailAt' = time
  /\ streak' = Bump(streak)
  /\ UNCHANGED <<size, threshold, timeout, time, records, accepted, written,
                 log, steady, timerVars, asideVars>>

ClockAdvance ==
  /\ \E ms \in Steps :
       /\ time + ms <= MaxTime
       /\ time' = time + ms
  /\ UNCHANGED <<size, threshold, timeout, failures, state, records, accepted,
                 written, log, call, steady, consecFails, lastFailAt, streak,
                 timerVars, asideVars>>

Next ==
  \/ BatchAccept
  \/ BatchFlush
  \/ BatchStop
  \/ CircuitAllowing
  \/ CircuitSucceed
  \/ CircuitFail
  \/ ClockAdvance

Spec == Init /\ [][Next]_vars

\* the circuit breaker on its own, called directly
NextCircuit ==
  \/ CircuitAllowing
  \/ CircuitSucceed
  \/ CircuitFail
  \/ ClockAdvance

CircuitSpec == Init /\ [][NextCircuit]_vars

circuitVars == <<size, threshold, timeout, failures, state, records, accepted,
                 written, log, call, steady, consecFails, lastFailAt, streak>>

\* ---- batch collector with a sink that completes its writes later ---------

\* the writes in flight after the call p on the batch. The array handed to
\* sink.write is the one `records` named; it stays the buffer of the batch,
\* to which accept() pushes, unless the call assigned a new array to `records`
Flying(q, p) ==
  LET renewed == Wrote(p) /\ p.records = <<>>
      kept == [i \in 1..Len(q) |->
                 [q[i] EXCEPT !.shared = @ /\ ~renewed]]
  IN IF Wrote(p)
       THEN Append(kept, [sent |-> p.wrote[1], shared |-> ~renewed])
       ELSE kept

\* what the array handed to the write f holds now
Held(f) == IF f.shared THEN records ELSE f.sent

\* sink.write returns a promise at once, as clickhouseSink.write does; to the
\* batch this is a write that returned
AsyncApply(op, p) ==
  /\ Apply(op, p)
  /\ writing' = writing + Len(p.wrote)
  /\ flights' = Flying(flights, p)
  /\ UNCHANGED <<size, threshold, timeout, time, timerVars, ledger, cf, mq>>

AsyncAccept ==
  /\ accepted < MaxAccepts
  /\ written < MaxWrites
  /\ AsyncApply("accept", accept(Circ, records, accepted + 1, "returns"))
  /\ accepted' = accepted + 1

AsyncFlush ==
  /\ written < MaxWrites
  /\ AsyncApply("flush", flush(Circ, records, "returns"))
  /\ UNCHANGED accepted

\* the promise of a write settles; nothing of the batch waits for it
WriteCompletes ==
  /\ writing > 0
  /\ writing' = writing - 1
  /\ \E i \in 1..Len(flights) :
       flights' = [j \in 1..(Len(flights) - 1) |->
                     IF j < i THEN flights[j] ELSE flights[j + 1]]
  /\ UNCHANGED <<circuitVars, time, timerVars, ledger, cf, mq>>

NextAsync ==
  \/ AsyncAccept
  \/ AsyncFlush
  \/ WriteCompletes
  \/ CircuitFail
  \/ ClockAdvance

AsyncSpec == Init /\ [][NextAsync]_vars

\* ---- batch collector with a synchronous sink, every record followed -------

\* what a call of a synchronous sink's write can do
SyncOutcomes == {"returns", "throws"}

\* the records of a sequence, as a set
Members(recs) == {recs[i] : i \in 1..Len(recs)}

\* the write of the call p failed, at once or later
FailedWrite(p) == Wrote(p) /\ p.outcome \in {"throws", "rejects"}

\* the ledger after the call p: a write that returned has delivered its
\* records; stop() has discarded what was pending; failed: the writes that
\* failed since the last one that did not
Booked(op, p) ==
  [delivered |-> IF Wrote(p) /\ ~p.threw
                   THEN ledger.delivered \o p.wrote[1]
                   ELSE ledger.delivered,
   discarded |-> IF op = "stop"
                   THEN ledger.discarded \cup Members(records)
                   ELSE ledger.discarded,
   failed |-> IF FailedWrite(p) THEN Bump(ledger.failed)
              ELSE IF Wrote(p) THEN 0 ELSE ledger.failed,
   failedAt |-> IF FailedWrite(p) THEN time ELSE ledger.failedAt]

LedgerApply(op, p) ==
  /\ Apply(op, p)
  /\ ledger' = Booked(op, p)
  /\ UNCHANGED <<size, threshold, timeout, time, timerVars, writing, flights,
                 cf, mq>>

LedgerAccept ==
  /\ accepted < MaxAccepts
  /\ written < MaxWrites
  /\ \E outcome \in SyncOutcomes :
       LedgerApply("accept", accept(Circ, records, accepted + 1, outcome))
  /\ accepted' = accepted + 1

LedgerFlush ==
  /\ written < MaxWrites
  /\ \E outcome \in SyncOutcomes :
       LedgerApply("flush", flush(Circ, records, outcome))
  /\ UNCHANGED accepted

LedgerStop ==
  /\ LedgerApply("stop", stop(Circ, records))
  /\ UNCHANGED accepted

NextLedger ==
  \/ LedgerAccept
  \/ LedgerFlush
  \/ LedgerStop
  \/ ClockAdvance

LedgerSpec == Init /\ [][NextLedger]_vars

\* ---- batch collector and circuit breaker, any sink -----------------------

GatedAccept ==
  /\ accepted < MaxAccepts
  /\ written < MaxWrites
  /\ \E outcome \in Outcomes :
       LedgerApply("accept", accept(Circ, records, accepted + 1, outcome))
  /\ accepted' = accepted + 1

GatedFlush ==
  /\ written < MaxWrites
  /\ \E outcome \in Outcomes :
       LedgerApply("flush", flush(Circ, records, outcome))
  /\ UNCHANGED accepted

NextGated ==
  \/ GatedAccept
  \/ GatedFlush
  \/ ClockAdvance

GatedSpec == Init /\ [][NextGated]_vars

\* the batch collector and the circuit breaker take no part in the
\* specifications that follow: one choice of their parameters stands for all
InitTimers == Init /\ size = 1 /\ threshold = 1 /\ timeout = 0

\* ---- constructors and their checks of the arguments ----------------------

\* the methods the collaborators handed to a constructor may have or lack
Methods(kind) ==
  CASE kind = "batch" -> {"write", "allowing", "succeed", "fail"}
    [] kind = "circuit" -> {"millis"}
    [] kind = "timedBatch" -> {"accept", "flush", "stop"}
    [] kind = "pollingSource" -> {"fetch", "accept", "millis"}

\* size, threshold or interval, and the timeout of a circuit
Numbers == {-1, 0, 1}

\* the constructor returns, c being its arguments; it throws otherwise
validated(c) ==
  CASE c.kind = "batch" ->
         "write" \in c.has /\ ~(c.n < 1) /\ "allowing" \in c.has
    [] c.kind = "circuit" ->
         ~(c.n < 1) /\ ~(c.t < 0) /\ "millis" \in c.has
    [] c.kind = "timedBatch" ->
         {"accept", "flush", "stop"} \subseteq c.has /\ ~(c.n <= 0)
    [] c.kind = "pollingSource" ->
         "fetch" \in c.has /\ ~(c.n <= 0) /\ "accept" \in c.has
           /\ "millis" \in c.has

\* the calls on a component and the methods of its collaborators each one
\* calls; the batch has size 1, so that accept() performs a write, which
\* returns or throws; the circuit has threshold 1; the fetch resolves with
\* entries
Uses(kind) ==
  CASE kind = "batch" ->
         {[op |-> "accept", calls |-> {"allowing", "write", "succeed"}],
          [op |-> "accept", calls |-> {"allowing", "write", "fail"}],
          [op |-> "flush", calls |-> {}],
          [op |-> "stop", calls |-> {}]}
    [] kind = "circuit" ->
         {[op |-> "allowing", calls |-> {}],
          [op |-> "succeed", calls |-> {}],
          [op |-> "fail", calls |-> {"millis"}]}
    [] kind = "timedBatch" ->
         {[op |-> "accept", calls |-> {"accept"}],
          [op |-> "flush", calls |-> {"flush"}],
          [op |-> "stop", calls |-> {"stop"}]}
    [] kind = "pollingSource" ->
         {[op |-> "start", calls |-> {"millis"}],
          [op |-> "tick", calls |-> {"millis", "fetch", "accept"}],
          [op |-> "stop", calls |-> {}]}

Construct ==
  /\ cf.kind = "none"
  /\ \E kind \in {"batch", "circuit", "timedBatch", "pollingSource"} :
     \E has \in SUBSET Methods(kind) : \E n \in Numbers :
     \E t \in (IF kind = "circuit" THEN Numbers ELSE {0}) :
       LET c == [kind |-> kind, has |-> has, n |-> n, t |-> t]
       IN cf' = [kind |-> kind, has |-> has, n |-> n, t |-> t,
                 made |-> validated(c), op |-> "none", lacked |-> {}]
  /\ UNCHANGED <<circuitVars, time, timerVars, writing, flights, ledger, mq>>

\* a call on a constructed component; lacked: the methods it called on its
\* collaborators and did not find
Use ==
  /\ cf.kind # "none"
  /\ cf.made
  /\ \E u \in Uses(cf.kind) :
       cf' = [cf EXCEPT !.op = u.op, !.lacked = u.calls \ cf.has]
  /\ UNCHANGED <<circuitVars, time, timerVars, writing, flights, ledger, mq>>

NextConfig ==
  \/ Construct
  \/ Use

ConfigSpec == InitTimers /\ [][NextConfig]_vars

\* ---- MQTT source: actions ------------------------------------------------

MqttStart ==
  /\ mq.issued < MaxStarts
  /\ LET p == mqttStart(mq)
     IN mq' = [mq EXCEPT !.state = p.state, !.listeners = p.listeners,
                         !.topic = p.topic, !.issued = p.issued,
                         !.log = [op |-> "start", calls |-> p.calls,
                                  threw |-> FALSE]]
  /\ UNCHANGED <<circuitVars, time, timerVars, writing, flights, ledger, cf>>

MqttStop ==
  /\ LET p == mqttStop(mq)
     IN mq' = [mq EXCEPT !.state = p.state, !.listeners = p.listeners,
                         !.topic = p.topic,
                         !.log = [op |-> "stop", calls |-> p.calls,
                                  threw |-> FALSE]]
  /\ UNCHANGED <<circuitVars, time, timerVars, writing, flights, ledger, cf>>

\* the client emits 'message' to every handler registered on it
MessageArrives ==
  /\ mq.seen < MaxMessages
  /\ \E matches \in BOOLEAN : \E payload \in Payloads :
       LET h == handler(matches, payload)
           n == Cardinality(mq.listeners) * h.accepts
       IN mq' = [mq EXCEPT !.seen = @ + 1, !.accepts = @ + n,
                           !.late = IF mq.state.subscribed THEN @ ELSE @ + n,
                           !.log = [op |-> "message", calls |-> <<>>,
                                    threw |-> h.threw /\ mq.listeners # {}]]
  /\ UNCHANGED <<circuitVars, time, timerVars, writing, flights, ledger, cf>>

NextMqtt ==
  \/ MqttStart
  \/ MqttStop
  \/ MessageArrives

MqttSpec == InitTimers /\ [][NextMqtt]_vars

\* ---- timed batch and polling source, each with the runtime's timers -------

pollVars == <<tickers, pstate, since, inflight, run, plog, forwarded, ticks>>

timedVars == <<timeouts, timer, tlog, fired, expiry>>

TimedApply(op, r) ==
  /\ timer' = r.w.timer
  /\ timeouts' = r.w.timeouts
  /\ handles' = r.w.handles
  /\ tlog' = TimedEntry(op, r)
  /\ fired' = 0
  /\ UNCHANGED <<time, interval, expiry, circuitVars, asideVars, pollVars>>

TimedAccept ==
  /\ handles < MaxHandles
  /\ \E outcome \in OriginOutcomes :
       TimedApply("accept", timedAccept(Tm, outcome))

TimedFlush ==
  \E outcome \in OriginOutcomes :
    TimedApply("flush", timedFlush(Tm, outcome))

TimedStop ==
  \E outcome \in StopOutcomes :
    TimedApply("stop", timedStop(Tm, outcome))

\* a timer set by setTimeout runs its callback, which calls origin.flush()
TimeoutFires ==
  /\ \E t \in timeouts : \E outcome \in OriginOutcomes :
       /\ time >= t.due
       /\ LET r == fire(Tm, t, outcome)
          IN /\ timer' = r.w.timer
             /\ timeouts' = r.w.timeouts
             /\ expiry' = [called |-> r.called, threw |-> r.threw,
                           before |-> r.before]
  /\ fired' = fired + 1
  /\ tlog' = [tlog EXCEPT !.first = -1]
  /\ UNCHANGED <<time, interval, handles, circuitVars, asideVars, pollVars>>

\* time passes, up to the next time a timer is due
Elapse ==
  /\ \E ms \in Steps :
       /\ time + ms <= MaxElapse
       /\ \A t \in timeouts \cup tickers : time + ms <= t.due
       /\ time' = time + ms
  /\ UNCHANGED <<circuitVars, timerVars, asideVars>>

NextTimed ==
  \/ TimedAccept
  \/ TimedFlush
  \/ TimedStop
  \/ TimeoutFires
  \/ Elapse

TimedSpec == InitTimers /\ [][NextTimed]_vars

PollApply(op, w) ==
  /\ pstate' = w.state
  /\ since' = w.since
  /\ tickers' = w.tickers
  /\ handles' = w.handles
  /\ inflight' = w.inflight
  /\ plog' = [op |-> op, at |-> time, polling |-> pstate.polling]
  /\ ticks' = IF op = "start" /\ ~run.on
                THEN [ticks EXCEPT !.base = time, !.moved = "other"]
                ELSE ticks
  /\ UNCHANGED <<time, interval, forwarded, circuitVars, asideVars, timedVars>>

PollStart ==
  /\ handles < MaxHandles
  /\ Len(inflight) < MaxInflight
  /\ LET w == starting(Ps)
     IN /\ PollApply("start", w)
        /\ run' = IF run.on
                    THEN [run EXCEPT !.fetched = @ + Len(w.inflight) - Len(inflight)]
                    ELSE [on |-> TRUE, at |-> time,
                          fetched |-> Len(w.inflight) - Len(inflight)]

PollStop ==
  /\ PollApply("stop", stopping(Ps))
  /\ run' = [on |-> FALSE, at |-> time, fetched |-> 0]

\* a timer set by setInterval runs poll() and is due again an interval later
IntervalFires ==
  /\ Len(inflight) < MaxInflight
  /\ \E k \in tickers :
       /\ time >= k.due
       /\ LET w == poll(Ps)
          IN /\ inflight' = w.inflight
             /\ since' = w.since
             /\ ticks' = Called(w.inflight[Len(w.inflight)])
       /\ tickers' = again(tickers, k)
  /\ run' = [run EXCEPT !.fetched = @ + 1]
  /\ UNCHANGED <<time, interval, handles, pstate, plog, forwarded, circuitVars,
                 asideVars, timedVars>>

\* a fetch settles and poll() goes on after its await, or ends rejected
FetchSettles ==
  /\ \E i \in 1..Len(inflight) : \E outcome \in FetchOutcomes :
       /\ inflight' = [j \in 1..(Len(inflight) - 1) |->
                         IF j < i THEN inflight[j] ELSE inflight[j + 1]]
       /\ ticks' = Settled(inflight[i], outcome)
       /\ IF outcome = "resolves"
            THEN /\ since' = resume(Ps, inflight[i]).since
                 /\ \E n \in 0..MaxEntries : \E bad \in 1..(MaxEntries + 1) :
                      forwarded' = [did |-> forward(n, bad), on |-> run.on]
            ELSE UNCHANGED <<since, forwarded>>
  /\ UNCHANGED <<time, interval, handles, tickers, pstate, run, plog,
                 circuitVars, asideVars, timedVars>>

\* ---- timed batch wrapping a batch collector ------------------------------

\* what the call p on the batch is to the timed batch that made it
Thrown(p) == IF p.threw THEN "throws" ELSE "returns"

\* a call on the timed batch, r, which made the call p on the batch
WrappedApply(op, p, r) ==
  /\ Apply(op, p)
  /\ timer' = r.w.timer
  /\ timeouts' = r.w.timeouts
  /\ handles' = r.w.handles
  /\ tlog' = TimedEntry(op, r)
  /\ fired' = 0
  /\ UNCHANGED <<size, threshold, timeout, time, interval, expiry, pollVars,
                 asideVars>>

WrappedAccept ==
  /\ accepted < MaxAccepts
  /\ written < MaxWrites
  /\ handles < MaxHandles
  /\ \E outcome \in SyncOutcomes :
       LET p == accept(Circ, records, accepted + 1, outcome)
       IN WrappedApply("accept", p, timedAccept(Tm, Thrown(p)))
  /\ accepted' = accepted + 1

WrappedFlush ==
  /\ written < MaxWrites
  /\ \E outcome \in SyncOutcomes :
       LET p == flush(Circ, records, outcome)
       IN WrappedApply("flush", p, timedFlush(Tm, Thrown(p)))
  /\ UNCHANGED accepted

WrappedStop ==
  /\ LET p == stop(Circ, records)
     IN WrappedApply("stop", p, timedStop(Tm, Thrown(p)))
  /\ UNCHANGED accepted

\* the timer runs its callback, whose origin.flush() is the flush of the batch
WrappedTimeoutFires ==
  /\ written < MaxWrites
  /\ \E t \in timeouts : \E outcome \in SyncOutcomes :
       /\ time >= t.due
       /\ LET p == flush(Circ, records, outcome)
              r == fire(Tm, t, Thrown(p))
          IN /\ Apply("flush", p)
             /\ timer' = r.w.timer
             /\ timeouts' = r.w.timeouts
             /\ expiry' = [called |-> r.called, threw |-> r.threw,
                           before |-> r.before]
  /\ fired' = fired + 1
  /\ tlog' = [tlog EXCEPT !.first = -1]
  /\ UNCHANGED <<size, threshold, timeout, time, accepted, interval, handles,
                 pollVars, asideVars>>

NextWrapped ==
  \/ WrappedAccept
  \/ WrappedFlush
  \/ WrappedStop
  \/ WrappedTimeoutFires
  \/ Elapse

WrappedSpec == Init /\ [][NextWrapped]_vars

NextPoll ==
  \/ PollStart
  \/ PollStop
  \/ IntervalFires
  \/ FetchSettles
  \/ Elapse

PollSpec == InitTimers /\ [][NextPoll]_vars

\* ---- helpers of the properties -------------------------------------------

\* the records delivered by the accept() calls number a to b
Ids(a, b) == [i \in 1..(b - a + 1) |-> a + i - 1]

IsPrefix(s, t) == Len(s) <= Len(t) /\ \A i \in 1..Len(s) : s[i] = t[i]

Disjoint(s, t) == \A i \in 1..Len(s) : \A j \in 1..Len(t) : s[i] # t[j]

\* ---- batch collector -----------------------------------------------------

\* C1: with a sink that always succeeds and a circuit that always allows,
\* after n accept calls and nothing else sink.write has been called
\* floor(n / size) times, each time with exactly `size` records in the order
\* accepted, and the pending buffer holds the remaining n mod size records.
OneWritePerSizeAccepts ==
  steady =>
    /\ written = accepted \div size
    /\ records = Ids(accepted - (accepted % size) + 1, accepted)
    /\ Wrote(log) => log.wrote = <<Ids(accepted - size + 1, accepted)>>

OneWritePerSizeAcceptsSeen ==
  steady /\ written >= 1 /\ Len(records) >= 1 /\ accepted > size

\* C2 as claimed: right after an accept call completes, the pending buffer
\* never holds more than `size` records.
PendingWithinSize == log.op = "accept" => Len(records) <= size

\* C2 amended: right after an accept call completes, the pending buffer holds
\* fewer than `size` records when its flush attempt was neither refused by the
\* circuit nor ended in a throwing write; when it was, the buffer keeps every
\* record it had plus the new one, whatever `size` is.
PendingWithinSizeUnlessRefused ==
  log.op = "accept" =>
    IF Denied(log) \/ log.threw
      THEN Len(records) = log.had + 1
      ELSE Len(records) < size

PendingBeyondSizeSeen ==
  log.op = "accept" /\ Denied(log) /\ Len(records) > size

\* C3: a flush attempt refused by the circuit breaker calls no sink.write and
\* leaves the pending buffer as it was (for accept: with the new record
\* appended), so that the next flush that is let through sends those records.
RefusedFlushKeepsPending ==
  [][ /\ (Denied(log') /\ (BatchAccept \/ BatchFlush))
         => /\ written' = written
            /\ log'.wrote = <<>>
            /\ records' = IF log'.op = "flush" THEN records
                          ELSE Append(records, accepted + 1)
      /\ (Denied(log) /\ Wrote(log') /\ BatchFlush)
         => log'.wrote = <<records>> ]_vars

RefusedFlushSeen ==
  log.op = "flush" /\ Denied(log) /\ log.had >= 1 /\ Len(records) = log.had

\* C4 as claimed: after a failed sink.write the records handed to it are gone
\* from the pending buffer (optimistic clear).
FailedWriteDropsRecords ==
  (Wrote(log) /\ log.outcome # "returns") => records = <<>>

\* C4 amended: when sink.write throws, the records handed to it stay in the
\* pending buffer in order, and the next write the collector makes starts
\* with those same records, followed by what was accepted after the failure.
ThrownWriteKeepsRecords ==
  /\ [](log.threw => (Wrote(log) /\ records = log.wrote[1]))
  /\ [][ (log.threw /\ Wrote(log') /\ (BatchAccept \/ BatchFlush))
         => IsPrefix(log.wrote[1], log'.wrote[1]) ]_vars

ThrownWriteKeptSeen ==
  log.op = "accept" /\ log.threw /\ Len(records) > size
    /\ records = log.wrote[1]

\* C5: when sink.write throws during flush(), the records of the attempt stay
\* pending, and the next flush() made with no accept or stop in between, the
\* circuit allowing, hands the same records to sink.write again.
FailedFlushIsRetried ==
  /\ []((log.op = "flush" /\ log.threw) => records = log.wrote[1])
  /\ [][ (log.op = "flush" /\ log.threw /\ allowing(Circ).ret /\ BatchFlush)
         => (written' = written + 1 /\ log'.wrote = log.wrote) ]_vars

FailedFlushRetriedSeen ==
  log.op = "flush" /\ log.again /\ Wrote(log) /\ log.outcome = "returns"
    /\ records = <<>>

\* C6: a sink.write that fails, by throwing or by returning a promise that
\* rejects, makes the collector call circuit.fail() once and not succeed(),
\* and the failure reaches the caller of accept/flush.
FailedWriteTripsCircuit ==
  (Wrote(log) /\ log.outcome \in {"throws", "rejects"})
    => (log.calls = <<"allowing", "write", "fail">> /\ log.threw)

\* C7: a sink.write that succeeds is followed by exactly one succeed() and no
\* fail(), and the records written are no longer pending when accept/flush
\* returns.
SuccessfulWriteClosesAndClears ==
  (Wrote(log) /\ log.outcome = "returns") =>
    /\ log.calls = <<"allowing", "write", "succeed">>
    /\ ~log.threw
    /\ Disjoint(records, log.wrote[1])
    /\ call = NoCall => (failures = 0 /\ state = closed)

SuccessfulWriteSeen ==
  Wrote(log) /\ log.outcome = "returns" /\ log.had >= 1 /\ records = <<>>
    /\ consecFails = 0

\* C8: stop() empties the pending buffer without calling sink.write and
\* without touching the circuit breaker, and a flush() that follows it with
\* no accept in between calls nothing.
StopDiscardsPending ==
  [][ /\ BatchStop
         => /\ records' = <<>>
            /\ written' = written
            /\ log'.calls = <<>>
            /\ failures' = failures /\ state' = state
      /\ (log.op = "stop" /\ BatchFlush)
         => (written' = written /\ log'.calls = <<>>) ]_vars

StopDiscardedSeen ==
  log.op = "stop" /\ log.had >= 1 /\ records = <<>> /\ ~state.allowing

\* C9: sink.write is never called with an empty sequence, and a flush on an
\* empty pending buffer neither consults nor changes the circuit breaker.
EmptyFlushDoesNothing ==
  /\ [](/\ \A i \in 1..Len(log.wrote) : log.wrote[i] # <<>>
        /\ (log.op = "flush" /\ log.had = 0) => (log.calls = <<>> /\ ~log.threw))
  /\ [][ (records = <<>> /\ BatchFlush)
         => UNCHANGED <<records, written, failures, state>> ]_vars

EmptyFlushSeen ==
  log.op = "flush" /\ log.had = 0 /\ log.calls = <<>> /\ ~state.allowing
    /\ expired(state)

\* ---- circuit breaker -----------------------------------------------------

\* C10: counted from construction or from the last succeed(), allowing()
\* returns true after fewer than `threshold` fail() calls, and false after
\* exactly `threshold` of them when asked at the clock time of the last one
\* and timeout > 0.
OpensAtThreshold ==
  call.op = "allowing" =>
    /\ consecFails < threshold => call.ret
    /\ (consecFails = threshold /\ lastFailAt = time /\ timeout > 0)
         => ~call.ret

OpensAtThresholdSeen ==
  /\ call.op = "allowing" /\ ~call.ret
  /\ consecFails = threshold /\ lastFailAt = time /\ timeout > 0

\* C11: while the circuit is open, allowing() returns false and changes
\* nothing as long as less than `timeout` seconds have passed since it opened;
\* at `timeout` seconds or more it returns true, closes the circuit and sets
\* the counter to zero, so that threshold - 1 fail() calls after it still
\* leave allowing() true.
RecoversAfterTimeout ==
  /\ [][ (~state.allowing /\ CircuitAllowing)
         => IF time - state.timestamp < timeout * Second
              THEN ~call'.ret /\ state' = state /\ failures' = failures
              ELSE call'.ret /\ state' = closed /\ failures' = 0 ]_vars
  /\ []((call.op = "allowing" /\ streak < threshold) => call.ret)

\* allowing() is true after a recovery and threshold - 1 failures: the last
\* succeed() is further back than the failures counted since the recovery
RecoveredSeen ==
  /\ call.op = "allowing" /\ call.ret
  /\ streak = threshold - 1 /\ threshold > 1 /\ consecFails > streak
  /\ timeout > 0

\* C12: succeed() leaves the circuit closed with the counter at zero in
\* whatever state it is called, allowing() returns true right after it, and
\* the circuit then opens at the threshold-th fail() call, not before.
SucceedCloses ==
  /\ [][ CircuitSucceed
         => /\ state' = closed /\ failures' = 0
            /\ allowing([failures |-> failures', state |-> state']).ret ]_vars
  /\ [](/\ state.allowing <=> streak < threshold
        /\ (call.op = "allowing" /\ consecFails = 0) => call.ret)

\* succeed() was called on the circuit that the last fail() had opened, at
\* the same clock time, so before its timeout
SucceedOnOpenSeen ==
  /\ call.op = "succeed" /\ state = closed /\ failures = 0
  /\ threshold = 1 /\ lastFailAt = time /\ time > 0 /\ timeout > 0

\* C13 as claimed: nothing but allowing() after the timeout moves the circuit
\* from open to closed.
OnlyTimeoutCloses ==
  [][ (~state.allowing /\ state'.allowing)
      => (time - state.timestamp >= timeout * Second /\ CircuitAllowing) ]_vars

\* C13 amended: the circuit goes from open to closed by allowing() after the
\* timeout or by succeed(), and by nothing else: not by fail(), not by the
\* clock, not by allowing() before the timeout.
OnlyTimeoutOrSucceedCloses ==
  [][ (~state.allowing /\ state'.allowing)
      => \/ (time - state.timestamp >= timeout * Second /\ CircuitAllowing)
         \/ CircuitSucceed ]_vars

\* allowing() has closed the circuit at the very time its timeout ended,
\* with no succeed() since the failures that opened it
ClosedAtTimeoutSeen ==
  /\ call.op = "allowing" /\ call.ret /\ state.allowing
  /\ streak = 0 /\ consecFails >= threshold
  /\ timeout > 0 /\ time = lastFailAt + timeout * Second

\* ---- timed batch ---------------------------------------------------------

\* C14: after one accept on an idle timed batch, once more than `interval`
\* seconds have passed with no other call, the timer has called the wrapped
\* flush() exactly once.
FlushedOnceAfterInterval ==
  (tlog.op = "accept" /\ tlog.idle /\ time > tlog.at + interval * Second)
    => fired = 1

\* C15: flush() while a timer is pending cancels the timer and calls the
\* wrapped flush() once; whatever time passes after it, the cancelled timer
\* makes no further flush.
ManualFlushCancelsTimer ==
  /\ [](tlog.op = "flush"
          => /\ tlog.called = <<"flush">>
             /\ fired = 0 /\ timeouts = {} /\ ~timer.scheduled)
  /\ [][ (timer.scheduled /\ TimedFlush)
         => timeouts' = timeouts \ {t \in timeouts : t.handle = timer.handle} ]_vars

ManualFlushSeen ==
  /\ tlog.op = "flush" /\ ~tlog.idle
  /\ time > tlog.at + interval * Second /\ fired = 0

StopCancelsTimer ==
  /\ [](tlog.op = "stop"
          => /\ tlog.called = <<"stop">>
             /\ fired = 0 /\ timeouts = {} /\ ~timer.scheduled)
  /\ [][ (tlog.op = "stop" /\ TimeoutFires) => FALSE ]_vars

StopWithTimerSeen ==
  /\ tlog.op = "stop" /\ ~tlog.idle
  /\ time > tlog.at + interval * Second /\ fired = 0

\* ---- polling source ------------------------------------------------------

\* C18: start() makes no fetch call; as long as less than one interval has
\* passed since start() no fetch call has been made, and once more than one
\* interval has passed the first tick of the timer has made one.
NoFetchBeforeFirstTick ==
  /\ [](run.on => /\ time < run.at + interval * Second => run.fetched = 0
                  /\ time > run.at + interval * Second => run.fetched >= 1)
  /\ [][ PollStart => inflight' = inflight ]_vars

FirstFetchAtFirstTickSeen ==
  /\ run.on /\ run.fetched = 1 /\ Len(inflight) = 1
  /\ time = run.at + interval * Second /\ run.at > 0

\* C19: stop() cancels the recurring timer and leaves the source idle; from
\* then on no fetch call is made, whatever time passes, until start() is
\* called again.
NoFetchAfterStop ==
  /\ [](~run.on => (run.fetched = 0 /\ tickers = {} /\ ~pstate.polling))
  /\ [][ (~run.on /\ IntervalFires) => FALSE ]_vars

StoppedWhilePollingSeen ==
  /\ plog.op = "stop" /\ plog.polling /\ ~run.on
  /\ time >= plog.at + 2 * interval * Second /\ run.fetched = 0

\* C20: start() on a polling source changes nothing: no second timer is
\* set and `since` is not read again from the clock; so at most one
\* recurring timer is set at any time, the source is polling exactly when
\* one is, and one stop() leaves none.
StartIsIdempotent ==
  /\ [](/\ Cardinality(tickers) <= 1
        /\ pstate.polling <=> tickers # {}
        /\ \A k \in tickers : pstate.handle = k.handle)
  /\ [][ /\ (pstate.polling /\ PollStart)
              => UNCHANGED <<pstate, since, tickers, handles, inflight>>
         /\ PollStop => tickers' = {} ]_vars

SecondStartSeen ==
  /\ plog.op = "start" /\ plog.polling /\ pstate.polling
  /\ since < plog.at /\ Cardinality(tickers) = 1

FailedWindowSkipped ==
  (ticks.prior.status = "rejected" /\ ticks.prev.after = "no")
    => ticks.prev.since = ticks.prior.until

\* C22 amended: a fetch that fails leaves `since` as it is; when nothing else
\* moved it, the next fetch is called with the `since` of the failed one and a
\* later `until`, so the failed window is fetched again.
FailedWindowFetchedAgain ==
  /\ []((ticks.prior.status = "rejected" /\ ticks.prev.after = "no")
          => /\ ticks.prev.since = ticks.prior.since
             /\ ticks.prev.until > ticks.prior.until)
  /\ [][ (ticks.prev.status = "pending" /\ ticks'.prev.status = "rejected")
         => since' = since ]_vars

FailedWindowSeen ==
  /\ ticks.prior.status = "rejected" /\ ticks.prev.after = "no"
  /\ ticks.prev.since = ticks.prior.since
  /\ ticks.prior.since < ticks.prior.until

\* C23: a fetch that fails neither clears the recurring timer nor changes the
\* state; while the source is started its timer is always due one interval
\* after its last tick, its n-th tick at n intervals after start(), and time
\* does not pass a due tick.
TicksGoOnAfterFailure ==
  /\ [][ FetchSettles => UNCHANGED <<tickers, pstate, run>> ]_vars
  /\ [](run.on => /\ pstate.polling
                  /\ \E k \in tickers :
                       /\ k.due = run.at + (run.fetched + 1) * interval * Second
                       /\ time <= k.due)

TickAfterFailureSeen ==
  /\ run.on /\ pstate.polling /\ run.fetched >= 2
  /\ ticks.prior.status = "rejected" /\ ticks.prev.status = "pending"
  /\ ticks.prior.until >= run.at + 1

\* C24: the result of every fetch that resolves is passed to accept entry by
\* entry, each entry once and in the order of the result.
EveryEntryForwarded ==
  forwarded.did.passed = Ids(1, forwarded.did.result)

\* C25: the source calls accept only while it is started: no entry is
\* forwarded after stop() has returned and before start() is called again.
NoAcceptAfterStop ==
  forwarded.did.calls > 0 => forwarded.on

\* ---- circuit breaker, after recovery -------------------------------------

\* allowing() has closed the open circuit at the end of its timeout and
\* neither fail() nor succeed() has been called since
JustRecovered == state.allowing /\ streak = 0 /\ consecFails >= threshold

\* C30 as claimed: whatever the threshold, a fail() as the first outcome
\* call after a recovery opens the circuit again at once, and a succeed()
\* keeps it closed.
ProbeDecides ==
  [][ /\ (JustRecovered /\ CircuitFail)
           => ~allowing([failures |-> failures', state |-> state']).ret
      /\ (JustRecovered /\ CircuitSucceed) => state'.allowing ]_vars

\* C30 amended: the first fail() after a recovery opens the circuit again at
\* once only when the threshold is 1; with a larger threshold the circuit
\* stays closed, the failures being counted from zero again; a succeed()
\* keeps it closed.
ProbeCountsFromZero ==
  [][ /\ (JustRecovered /\ CircuitFail)
           => /\ failures' = 1
              /\ allowing([failures |-> failures', state |-> state']).ret
                   <=> (threshold > 1 \/ timeout = 0)
              /\ state'.allowing <=> threshold > 1
      /\ (JustRecovered /\ CircuitSucceed) => state'.allowing ]_vars

FailAfterRecoverySeen ==
  /\ call.op = "fail" /\ state.allowing
  /\ streak = 1 /\ consecFails = threshold + 1 /\ threshold > 1 /\ timeout > 0

\* ---- batch collector, asynchronous sink ----------------------------------

\* C27: at most one write of the batch is in flight, begun and not yet
\* completed, at any time.
OneWriteInFlight == writing <= 1

\* ---- construction --------------------------------------------------------

\* C28: a component whose constructor has returned never makes a call on a
\* collaborator that lacks the method called.
ConstructedLacksNothing == (cf.kind # "none" /\ cf.made) => cf.lacked = {}

\* ---- MQTT source ---------------------------------------------------------

\* C29: start() while subscribed makes no call on the client, so that one
\* handler is registered and the client subscribed once; stop() while idle
\* makes no call; stop() while subscribed unsubscribes and removes the
\* handler; no message arriving while the source is idle reaches the
\* collector's accept.
MqttLifecycle ==
  /\ [](/\ Cardinality(mq.listeners) <= 1
        /\ mq.state.subscribed <=> mq.listeners = {mq.state.handler}
        /\ mq.state.subscribed <=> mq.topic
        /\ ~mq.state.subscribed => mq.listeners = {}
        /\ mq.late = 0)
  /\ [][ /\ (MqttStart /\ mq.state.subscribed)
             => /\ mq'.log.calls = <<>>
                /\ mq'.listeners = mq.listeners /\ mq'.topic = mq.topic
         /\ (MqttStart /\ ~mq.state.subscribed)
             => /\ mq'.log.calls = <<"on", "subscribe">>
                /\ mq'.state.subscribed
         /\ (MqttStop /\ ~mq.state.subscribed)
             => /\ mq'.log.calls = <<>>
                /\ mq'.listeners = mq.listeners /\ mq'.topic = mq.topic
         /\ (MqttStop /\ mq.state.subscribed)
             => /\ mq'.log.calls = <<"unsubscribe", "off">>
                /\ mq'.listeners = {} /\ ~mq'.topic /\ ~mq'.state.subscribed
         /\ (MessageArrives /\ ~mq.state.subscribed)
             => mq'.accepts = mq.accepts ]_vars

\* a message that matches the topic arrives after stop(), the source having
\* been started twice and having passed a message to the collector
MessageAfterStopSeen ==
  /\ mq.log.op = "message"
  /\ ~mq.state.subscribed
  /\ mq.issued >= 2
  /\ mq.accepts >= 1
  /\ mq.seen > mq.accepts

\* ---- one component, constructed and then used ----------------------------

\* the component constructed is of this kind, and its collaborators have
\* every method
Built(kind) == cf.kind = kind /\ cf.made /\ cf.has = Methods(kind)

OnBatch ==
  /\ Built("batch")
  /\ BatchAccept \/ BatchFlush \/ BatchStop

OnTimedBatch ==
  /\ Built("timedBatch")
  /\ TimedAccept \/ TimedFlush \/ TimedStop \/ TimeoutFires

OnPollingSource ==
  /\ Built("pollingSource")
  /\ PollStart \/ PollStop \/ IntervalFires \/ FetchSettles

OnTimers ==
  /\ Built("timedBatch") \/ Built("pollingSource")
  /\ Elapse

NextOne ==
  \/ Construct
  \/ OnBatch
  \/ OnTimedBatch
  \/ OnPollingSource
  \/ OnTimers

OneSpec == InitTimers /\ [][NextOne]_vars

\* ---- stop() --------------------------------------------------------------

\* C26: stop() of a batch, a timed batch or a polling source, called in any
\* state, does not throw; called on a batch with an empty buffer, a timed
\* batch with no timer or an idle polling source, it changes no state of
\* that component.
StopIsSafe ==
  /\ [](/\ log.op = "stop" => ~log.threw
        /\ tlog.op = "stop" => ~tlog.threw)
  /\ [][ /\ (BatchStop /\ records = <<>>)
             => UNCHANGED <<records, failures, state, written>>
         /\ (TimedStop /\ ~timer.scheduled)
             => UNCHANGED <<timer, timeouts, handles>>
         /\ (PollStop /\ ~pstate.polling)
             => UNCHANGED <<pstate, since, tickers, handles, inflight>> ]_vars

\* stop() on a polling source that had been started and stopped, some time
\* after the first stop()
StopAfterStopSeen ==
  /\ Built("pollingSource")
  /\ plog.op = "stop"
  /\ ~plog.polling
  /\ handles >= 1
  /\ since < time

\* ---- timed batch: the timer's callback -----------------------------------

\* C31: the callback of the timer sets the timed batch idle, then calls the
\* wrapped flush() once; whether that flush() returns or throws, the timed
\* batch is idle afterwards, and the next accept() that returns sets a new
\* timer.
IdleBeforeTimerFlush ==
  /\ [](fired > 0 => /\ ~timer.scheduled
                     /\ timeouts = {}
                     /\ expiry.called = <<"flush">>
                     /\ ~expiry.before.scheduled)
  /\ [][ TimeoutFires => /\ fired' = fired + 1
                         /\ ~timer'.scheduled ]_vars
  /\ [][ (fired > 0 /\ TimedAccept /\ ~tlog'.threw)
           => /\ timer'.scheduled
              /\ handles' = handles + 1
              /\ timeouts' = {[handle |-> handles', due |-> time + Delay(interval)]}
       ]_vars

\* an accept() has set a new timer after the flush() of a timer threw
TimerSetAfterThrownFlushSeen ==
  /\ tlog.op = "accept" /\ ~tlog.threw /\ tlog.idle
  /\ timer.scheduled /\ handles >= 2
  /\ expiry.threw /\ fired = 0

\* ---- batch collector: writes in flight -----------------------------------

\* C32: the array handed to a sink.write that has not completed holds what it
\* held when the call was made, whatever is accepted meanwhile; the records
\* accepted meanwhile are in the pending buffer and in no write in flight,
\* and they are handed to a later write.
InFlightUntouched ==
  /\ [](\A i \in 1..Len(flights) :
          /\ Held(flights[i]) = flights[i].sent
          /\ Disjoint(Held(flights[i]), records)
          /\ \A j \in 1..Len(flights) :
               i # j => Disjoint(Held(flights[i]), Held(flights[j])))
  /\ [][ (flights # <<>> /\ AsyncAccept)
           => /\ \A i \in 1..Len(flights) :
                   /\ flights'[i] = flights[i]
                   /\ \A k \in 1..Len(flights[i].sent) :
                        flights[i].sent[k] # accepted'
              /\ \/ records' = Append(records, accepted')
                 \/ /\ records' = <<>>
                    /\ flights'[Len(flights')].sent = Append(records, accepted')
       ]_vars

\* a record has been accepted while a write was in flight and is pending
AcceptedInFlightSeen ==
  /\ log.op = "accept"
  /\ flights # <<>>
  /\ records # <<>>
  /\ records[Len(records)] = accepted
  /\ flights[1].sent[Len(flights[1].sent)] < accepted

\* ---- circuit breaker: state and counter ----------------------------------

\* C33: the circuit is open exactly when the failure counter is at or above
\* the threshold, closed exactly when it is below, and the counter is never
\* negative.
OpenIffCounterAtThreshold ==
  /\ ~state.allowing <=> failures >= threshold
  /\ state.allowing <=> failures < threshold
  /\ failures >= 0

\* the circuit is open for the second time, having recovered in between
OpenAgainSeen ==
  /\ ~state.allowing
  /\ failures = threshold
  /\ streak = threshold
  /\ consecFails > threshold
  /\ threshold > 1

\* ---- batch collector: every record accounted for -------------------------

\* the sequence s without the members of the set d
Without(s, d) == SelectSeq(s, LAMBDA x : x \notin d)

\* C34: with a synchronous sink, the records of the writes that returned, in
\* call order, followed by the pending buffer, are the accepted records in
\* the order accepted without those stop() discarded; no record is in two
\* writes that returned.
NoLossNoDuplication ==
  /\ ledger.delivered \o records = Without(Ids(1, accepted), ledger.discarded)
  /\ \A i, j \in 1..Len(ledger.delivered) :
       ledger.delivered[i] = ledger.delivered[j] => i = j
  /\ Members(ledger.delivered) \cap ledger.discarded = {}

\* records were delivered, others discarded by stop(), another is pending,
\* and a write has thrown
AccountedSeen ==
  /\ ledger.delivered # <<>>
  /\ ledger.discarded # {}
  /\ records # <<>>
  /\ consecFails > 0

\* ---- timed batch wrapping a batch collector ------------------------------

\* C35: after every call on the timed batch and every run of its timer, a
\* flush timer is pending whenever the buffer of the wrapped batch is not
\* empty.
NoStrandedRecords == records # <<>> => timer.scheduled

\* ---- batch collector gated by the circuit breaker ------------------------

\* the threshold-th failed write in a row was the last write, less than
\* `timeout` seconds ago
Tripped ==
  ledger.failed = threshold /\ time - ledger.failedAt < timeout * Second

\* the threshold-th failed write in a row was the last write, `timeout`
\* seconds ago or more
TrippedLongAgo ==
  ledger.failed = threshold /\ time - ledger.failedAt >= timeout * Second

\* C36: after `threshold` failed writes in a row no accept() or flush() calls
\* sink.write until `timeout` seconds have passed since the last of them;
\* the first flush attempt with a non-empty buffer from then on calls
\* sink.write.
NoWriteWhileTripped ==
  [][ /\ (Tripped /\ (GatedAccept \/ GatedFlush)) => ~Wrote(log')
      /\ (TrippedLongAgo /\ records # <<>> /\ GatedFlush) => Wrote(log')
      /\ (TrippedLongAgo /\ Len(records) + 1 >= size /\ GatedAccept)
           => Wrote(log') ]_vars

\* ---- circuit breaker: failures while open --------------------------------

\* C37: a fail() on an open circuit leaves it open and makes the time of
\* that call the time it opened; allowing() is false until `timeout` seconds
\* after the last fail() made at or above the threshold.
FailWhileOpenRestartsTimeout ==
  /\ [][ (~state.allowing /\ CircuitFail)
           => /\ ~state'.allowing
              /\ state'.timestamp = time
              /\ failures' = failures + 1 ]_vars
  /\ [](~state.allowing => state.timestamp = lastFailAt)
  /\ [][ (~state.allowing /\ CircuitAllowing)
           => (call'.ret <=> time - lastFailAt >= timeout * Second) ]_vars

\* allowing() is false after a fail() made on an open circuit at a later time
\* than the clock's start
RefusedAfterLaterFailSeen ==
  /\ call.op = "allowing" /\ ~call.ret
  /\ failures > threshold
  /\ state.timestamp > 0
  /\ time > state.timestamp

\* ---- polling source: the windows of overlapping fetches ------------------

\* C38: from one fetch call to the next, `since` never decreases and is
\* never the same, whatever the order in which ticks and the results of
\* earlier fetches come.
SinceStrictlyIncreasing ==
  [][ (ticks.prev.status # "none" /\ IntervalFires)
        => inflight'[Len(inflight')].since > ticks.prev.since ]_vars

\* ---- polling source: start() after stop() --------------------------------

\* C39: start() after stop() makes the source polling with one new timer and
\* `since` at the clock time of that start(), and the first fetch after it is
\* called with that `since`, whatever fetches of the earlier run had not
\* settled at stop().
RestartStartsWindowAnew ==
  [][ /\ (~pstate.polling /\ handles >= 1 /\ PollStart)
           => /\ pstate'.polling
              /\ Cardinality(tickers') = 1
              /\ handles' = handles + 1
              /\ since' = time
      /\ (run.on /\ run.fetched = 0 /\ handles >= 2 /\ IntervalFires)
           => inflight'[Len(inflight')].since = run.at ]_vars

====
